---- MODULE Spec2Model ----
(***************************************************************************)
(* Game-flow reconstruction and charting of nba-score-cli                  *)
(* (renderGameFlow in src/index.js).  One call of renderGameFlow is        *)
(* modelled as a state machine whose steps are the statements and loop     *)
(* iterations of the function, in source order.                            *)
(*                                                                         *)
(* Numbers.  The code computes with IEEE doubles; the model computes the   *)
(* same values with integers:                                              *)
(*   - a sample's `time` (minute / totalGameMinutes) is kept as its        *)
(*     numerator, the denominator being totalGameMinutes;                  *)
(*   - seconds on the clock are whole seconds;                             *)
(*   - Math.floor, Math.ceil and Math.round are written with \div, which   *)
(*     rounds towards minus infinity.                                      *)
(*                                                                         *)
(* Further down: the keyboard interface around the chart (views, detail    *)
(* view, quit dialog, refresh timer and fetches in flight) under SpecUI,   *)
(* and getGameMVP under SpecMVP.                                           *)
(***************************************************************************)
EXTENDS Integers, Sequences, FiniteSets, Bags, TLC

VARIABLES
    gameStatus,        \* boxScore.game.gameStatus: 1 scheduled, 2 live, 3 final
    homePeriods,       \* boxScore.game.homeTeam.periods.length (0: no periods array)
    playByPlay,        \* Null, or [actions |-> sequence of play-by-play actions]
    pc,                \* position inside renderGameFlow
    diffData,          \* the series: sequence of samples
    leadChanges,
    lastLead,
    rawMinuteData,     \* Map minute -> latest diff
    actionIdx,         \* position of the `for (const action of ...)` loop
    endMinute,
    fillMinute,        \* the `m` of the fill loop
    currentDiff,
    interval,
    yMax,
    yMin,
    chartHeight,
    maxPossibleWidth,  \* gameFlowBox.width - 15
    chartWidth,
    chart,             \* column -> set of rows holding the glyph
    plotIdx,           \* position of the `for (const data of diffData)` loop
    content,           \* what gameFlowBox.setContent receives
    ui,                \* the interface: module state, widgets, calls in flight
    mvpGame,           \* the game handed to getGameMVP
    mvp,               \* what getGameMVP returned
    tradeNewsData,     \* the last result of fetchTradeNews
    subscribedPlayers,
    notifiedTransactions,
    notifications,     \* the transaction alerts handed to notifier.notify
    standingsData,
    standingsContent   \* what standingsContent.setContent receives

flowVars == <<gameStatus, homePeriods, playByPlay, pc, diffData, leadChanges,
              lastLead, rawMinuteData, actionIdx, endMinute, fillMinute,
              currentDiff, interval, yMax, yMin, chartHeight,
              maxPossibleWidth, chartWidth, chart, plotIdx, content>>
mvpVars == <<mvpGame, mvp>>
newsVars == <<tradeNewsData, subscribedPlayers, notifiedTransactions,
              notifications>>
standingsVars == <<standingsData, standingsContent>>
vars == <<flowVars, ui, mvpVars, newsVars, standingsVars>>

(***************************************************************************)
(* Bounds of the model.                                                    *)
(***************************************************************************)
MaxActions == 2          \* longest play-by-play list of the full pipeline
MaxScanActions == 5      \* longest play-by-play list of the scan-only runs
MaxChartActions == 2     \* longest play-by-play list of the chart runs
MaxNarrowCols == 1       \* narrow panes leave -1 .. MaxNarrowCols chart columns
WideBoxWidth == 200      \* a pane wide enough for the compact width to win

(***************************************************************************)
(* Helpers.                                                                *)
(***************************************************************************)
Max(a, b) == IF a >= b THEN a ELSE b
Min(a, b) == IF a <= b THEN a ELSE b
Abs(a) == IF a < 0 THEN -a ELSE a
SetMax(S) == CHOOSE v \in S : \A w \in S : w <= v
SetMin(S) == CHOOSE v \in S : \A w \in S : v <= w
FloorDiv(a, b) == a \div b
CeilDiv(a, b) == -((-a) \div b)

(***************************************************************************)
(* Input domains.                                                          *)
(***************************************************************************)
Null == [null |-> TRUE]

GameStatuses == {1, 2, 3}
PeriodLens == {3, 5}

IsoClock(mn, sc) == [fmt |-> "iso", min |-> mn, sec |-> sc]    \* "PT11M30.00S"
MmSsClock(mn, sc) == [fmt |-> "mmss", min |-> mn, sec |-> sc]  \* "11:30"
BadClock == [fmt |-> "bad", min |-> 0, sec |-> 0]              \* "garbage"

\* Where an action sits in the game: <<period, clock>>.
PlayTimes == {<<1, IsoClock(11, 30)>>, <<1, IsoClock(10, 0)>>, <<2, BadClock>>}
\* Running score of an action: <<scoreHome, scoreAway>>.
PlayScores == {<<2, 0>>, <<2, 5>>, <<22, 2>>, <<1, 22>>}

ScoredAction(p, c, h, a) ==
    [period |-> p, clock |-> c, scoreHome |-> h, scoreAway |-> a]
UnscoredAction(p, c) == [period |-> p, clock |-> c]

PlayActions ==
    {ScoredAction(t[1], t[2], s[1], s[2]) : t \in PlayTimes, s \in PlayScores}

\* Actions of the scan-only runs: one place in the game, more scores.
ScanScores == {<<0, 0>>, <<3, 0>>, <<3, 5>>, <<3, 8>>, <<12, 8>>}
ScanActions ==
    {ScoredAction(1, IsoClock(11, 30), s[1], s[2]) : s \in ScanScores}
        \cup {UnscoredAction(1, IsoClock(11, 30))}

\* Actions of the chart runs: small and large leads early in period 1.
ChartTimes == {<<1, IsoClock(11, 30)>>, <<1, IsoClock(10, 0)>>}
ChartScores == {<<1, 0>>, <<0, 1>>, <<0, 2>>, <<6, 0>>, <<25, 0>>}
ChartActions ==
    {ScoredAction(t[1], t[2], s[1], s[2]) : t \in ChartTimes, s \in ChartScores}

ActionLists(D, n) == UNION {[1..l -> D] : l \in 0..n}

\* gameFlowBox.width; the chart gets the width less ChartMargin columns
ChartMargin == 15
BoxWidths ==
    {ChartMargin + c : c \in (-1)..MaxNarrowCols} \cup {WideBoxWidth}

(***************************************************************************)
(* renderGameFlow, lines 1318-1319.                                        *)
(***************************************************************************)
numPeriods == Max(4, IF homePeriods = 0 THEN 4 ELSE homePeriods)
totalGameMinutes == numPeriods * 12

HasActions == "actions" \in DOMAIN playByPlay
Actions == IF HasActions THEN playByPlay.actions ELSE <<>>

(***************************************************************************)
(* The per-action computations of the scan loop, lines 1326-1349.          *)
(***************************************************************************)
HasScores(a) == "scoreHome" \in DOMAIN a /\ "scoreAway" \in DOMAIN a

\* clock.match(/PT(\d+)M([\d.]+)S/)
ClockMatch(c) == c.fmt = "iso"
\* variant: an unmatched clock counts as 0:00 left (as parseGameClock does)
MinutesLeft_ZeroFallback(c) == IF ClockMatch(c) THEN c.min ELSE 0
MinutesLeft(c) == IF ClockMatch(c) THEN c.min ELSE 12
SecondsLeft(c) == IF ClockMatch(c) THEN c.sec ELSE 0

\* Math.floor((period - 1) * 12 + 12 - minutesLeft - secondsLeft / 60)
MinuteKey(a) ==
    LET period == IF a.period = 0 THEN 1 ELSE a.period
    IN  (period - 1) * 12 + 12 - MinutesLeft(a.clock)
            - CeilDiv(SecondsLeft(a.clock), 60)

ActionDiff(a) == a.scoreHome - a.scoreAway

LeadFlips(last, diff) == (last > 0 /\ diff < 0) \/ (last < 0 /\ diff > 0)
\* variant: a tie forgets which side led last
NextLastLead_ResetOnTie(last, diff) == diff
NextLastLead(last, diff) == IF diff # 0 THEN diff ELSE last

\* variant: a bucket keeps the first diff written into it
MapSet_KeepFirst(map, key, val) ==
    [q \in (DOMAIN map) \cup {key} |-> IF q \in DOMAIN map THEN map[q] ELSE val]
MapSet(map, key, val) ==
    [q \in (DOMAIN map) \cup {key} |-> IF q = key THEN val ELSE map[q]]

(***************************************************************************)
(* Samples of the series.  The first sample, pushed at line 1314, has no   *)
(* `minute` field.                                                         *)
(***************************************************************************)
BaselineSample == [time |-> 0, diff |-> 0]
MinuteSample(mn, d) == [time |-> mn, diff |-> d, minute |-> mn]

\* the series when there is no play-by-play, lines 1314 and 1375
\* variant: the else-branch pushes nothing
NoPlaysSeries_OnlyBaseline == <<BaselineSample>>
NoPlaysSeries == <<BaselineSample, MinuteSample(0, 0)>>

\* the diff of minute mn in the fill loop, lines 1368-1370
\* variant: minute 0 is kept as the pre-game baseline
FillDiff_SkipFirst(map, mn, cur) ==
    IF mn > 0 /\ mn \in DOMAIN map THEN map[mn] ELSE cur
\* variant: a minute without a bucket falls back to 0
FillDiff_NoCarry(map, mn, cur) == IF mn \in DOMAIN map THEN map[mn] ELSE 0
FillDiff(map, mn, cur) == IF mn \in DOMAIN map THEN map[mn] ELSE cur

\* const endMinute = game.gameStatus === 3 ? totalGameMinutes : maxMinute
MaxMinuteOf(map) == SetMax((DOMAIN map) \cup {0})
\* variants: the status is not looked at
EndMinuteOf_IgnoreFinal(status, total, map) == MaxMinuteOf(map)
EndMinuteOf_AlwaysTotal(status, total, map) == total
\* variant: a final game ends with regulation
EndMinuteOf_FinalAtRegulation(status, total, map) ==
    IF status = 3 THEN 48 ELSE MaxMinuteOf(map)
EndMinuteOf(status, total, map) ==
    IF status = 3 THEN total ELSE MaxMinuteOf(map)

(***************************************************************************)
(* Scale, lines 1379-1391.                                                 *)
(***************************************************************************)
Diffs(series) == {series[i].diff : i \in 1..Len(series)}
DataMax(series) == SetMax(Diffs(series) \cup {0})
DataMin(series) == SetMin(Diffs(series) \cup {0})
MaxAbsDiff(series) == Max(Abs(DataMax(series)), Abs(DataMin(series)))
\* variant: the coarse grid starts at 20
IntervalOf_From20(series) == IF MaxAbsDiff(series) >= 20 THEN 4 ELSE 2
IntervalOf(series) == IF MaxAbsDiff(series) > 20 THEN 4 ELSE 2
YMaxOf(series, iv) == CeilDiv(Max(DataMax(series), 1), iv) * iv
\* variant: no padding below zero
YMinOf_NoPadding(series, iv) == FloorDiv(DataMin(series), iv) * iv
YMinOf(series, iv) == FloorDiv(Min(DataMin(series), -1), iv) * iv
ChartHeightOf(top, bottom, iv) == ((top - bottom) \div iv) + 1

\* Math.floor(Math.min(maxPossibleWidth, totalGameMinutes * 1.8))
ChartWidthOf(avail, total) == Min(avail, (total * 18) \div 10)

(***************************************************************************)
(* Plotting, lines 1402-1415.                                              *)
(***************************************************************************)
\* <<totalGameMinutes, chartWidth, minute>> for which the double product
\* (minute / totalGameMinutes) * (chartWidth - 1) falls just below the
\* exact integer quotient (totalGameMinutes 48 and 60, minute < total + 30).
FloatShort ==
    {<<60, 46, 84>>, <<60, 76, 44>>, <<60, 76, 88>>, <<60, 86, 84>>,
     <<60, 91, 42>>, <<60, 91, 84>>, <<60, 101, 69>>}

\* Math.floor(data.time * (chartWidth - 1))
\* variant: the time is scaled by the full width
ColumnOf_FullWidth(t, total, width) == (t * width) \div total
ColumnOf(t, total, width) ==
    ((t * (width - 1)) \div total)
        - (IF <<total, width, t>> \in FloatShort THEN 1 ELSE 0)

\* Math.round(data.diff / interval) * interval; Math.round rounds halves up
\* variant: the diff is cut down to the interval below it
RoundToInterval_Floor(d, iv) == (d \div iv) * iv
RoundToInterval(d, iv) == ((2 * d + iv) \div (2 * iv)) * iv
RowOf(d, top, iv) == (top - RoundToInterval(d, iv)) \div iv

InGrid(x, y, width, height) == y >= 0 /\ y < height /\ x >= 0 /\ x < width

\* clear the column, then put the glyph
\* variant: the column is not cleared first
PlotInColumn_NoClear(ch, x, y) == [ch EXCEPT ![x] = @ \cup {y}]
\* variant: a column that holds a glyph is left alone
PlotInColumn_KeepFirst(ch, x, y) ==
    IF ch[x] = {} THEN [ch EXCEPT ![x] = {y}] ELSE ch
PlotInColumn(ch, x, y) == [ch EXCEPT ![x] = {y}]

PlotSample(ch, s, total, width, height, top, iv) ==
    LET x == ColumnOf(s.time, total, width)
        y == RowOf(s.diff, top, iv)
    IN  IF InGrid(x, y, width, height) THEN PlotInColumn(ch, x, y) ELSE ch

EmptyChart(width) == [x \in 0..(width - 1) |-> {}]

(***************************************************************************)
(* Rendering, lines 1418-1518: class of each glyph and whether the         *)
(* "Recent Plays" section is written.                                      *)
(***************************************************************************)
YZero(top, iv) == top \div iv
GlyphClass(y, zero) ==
    IF y < zero THEN "home" ELSE IF y > zero THEN "away" ELSE "tied"

\* the labels of the bottom axis, lines 1467-1483: Q1..Q4, then one label
\* every 5 minutes from minute 48 up to the end of the game
AxisLabel(name, mn) == [name |-> name, minute |-> mn]
QuarterLabels ==
    {AxisLabel(<<"Q", q>>, (q - 1) * 12) : q \in 1..4}
OvertimeLabels(total) ==
    IF total > 48
      THEN {AxisLabel(<<"OT", otCount>>, 48 + 5 * (otCount - 1)) :
               otCount \in {c \in 1..total : 48 + 5 * (c - 1) < total}}
      ELSE {}
\* the labels written into the label row, each with its column (lines
\* 1485-1496)
LabelsPlaced(total, width) ==
    {[name |-> l.name, minute |-> l.minute,
      x |-> ColumnOf(l.minute, total, width)] :
        l \in {m \in QuarterLabels \cup OvertimeLabels(total) :
                  LET x == ColumnOf(m.minute, total, width)
                  IN  x >= 0 /\ x < width}}

ContentOf(ch, changes, top, iv, recent, labels) ==
    [leadChanges |-> changes,
     glyphs |-> [x \in DOMAIN ch |->
                    {<<y, GlyphClass(y, YZero(top, iv))>> : y \in ch[x]}],
     labels |-> labels,
     recentPlays |-> recent]

NoContent ==
    [leadChanges |-> 0, glyphs |-> <<>>, labels |-> {}, recentPlays |-> FALSE]

(***************************************************************************)
(* Initial states: renderGameFlow is entered with a box score and a        *)
(* play-by-play; its locals are not assigned yet.                          *)
(***************************************************************************)
\* the parts of the program a specification leaves out are idle in it
Idle == [idle |-> TRUE]
UiIdle == ui = Idle
MvpIdle == mvpGame = Idle /\ mvp = Idle
NewsIdle ==
    /\ tradeNewsData = Idle
    /\ subscribedPlayers = Idle
    /\ notifiedTransactions = Idle
    /\ notifications = Idle
StandingsIdle == standingsData = Idle /\ standingsContent = Idle

LocalsInit ==
    /\ pc = "start"
    /\ diffData = <<>>
    /\ leadChanges = 0
    /\ lastLead = 0
    /\ rawMinuteData = <<>>
    /\ actionIdx = 1
    /\ endMinute = 0
    /\ fillMinute = 0
    /\ currentDiff = 0
    /\ interval = 0
    /\ yMax = 0
    /\ yMin = 0
    /\ chartHeight = 0
    /\ maxPossibleWidth = 0
    /\ chartWidth = 0
    /\ chart = <<>>
    /\ plotIdx = 1
    /\ content = NoContent

Init ==
    /\ gameStatus \in GameStatuses
    /\ homePeriods \in PeriodLens
    /\ playByPlay \in
         {Null} \cup {[actions |-> l] : l \in ActionLists(PlayActions, MaxActions)}
    /\ LocalsInit
    /\ UiIdle
    /\ MvpIdle
    /\ NewsIdle
    /\ StandingsIdle

(***************************************************************************)
(* Lines 1313-1321 and 1373-1376.                                          *)
(***************************************************************************)
Begin ==
    /\ pc = "start"
    /\ leadChanges' = 0
    /\ lastLead' = 0
    /\ IF HasActions
         THEN /\ diffData' = <<BaselineSample>>
              /\ pc' = "scan"
         ELSE /\ diffData' = NoPlaysSeries
              /\ pc' = "scale"
    /\ UNCHANGED <<gameStatus, homePeriods, playByPlay, rawMinuteData,
                   actionIdx, endMinute, fillMinute, currentDiff, interval,
                   yMax, yMin, chartHeight, maxPossibleWidth, chartWidth,
                   chart, plotIdx, content>>
    /\ UNCHANGED <<ui, mvpVars, newsVars, standingsVars>>

(***************************************************************************)
(* One iteration of the scan loop, lines 1325-1358.                        *)
(***************************************************************************)
ScanAction ==
    /\ pc = "scan"
    /\ actionIdx <= Len(Actions)
    /\ LET action == Actions[actionIdx]
       IN  IF HasScores(action)
             THEN LET diff == ActionDiff(action)
                  IN  /\ leadChanges' = IF LeadFlips(lastLead, diff)
                                          THEN leadChanges + 1
                                          ELSE leadChanges
                      /\ lastLead' = NextLastLead(lastLead, diff)
                      /\ rawMinuteData' =
                            MapSet(rawMinuteData, MinuteKey(action), diff)
             ELSE UNCHANGED <<leadChanges, lastLead, rawMinuteData>>
    /\ actionIdx' = actionIdx + 1
    /\ UNCHANGED <<gameStatus, homePeriods, playByPlay, pc, diffData,
                   endMinute, fillMinute, currentDiff, interval, yMax, yMin,
                   chartHeight, maxPossibleWidth, chartWidth, chart, plotIdx,
                   content>>
    /\ UNCHANGED <<ui, mvpVars, newsVars, standingsVars>>

(***************************************************************************)
(* End of the scan loop, lines 1361-1365.                                  *)
(***************************************************************************)
StartFill ==
    /\ pc = "scan"
    /\ actionIdx > Len(Actions)
    /\ currentDiff' = 0
    /\ endMinute' = EndMinuteOf(gameStatus, totalGameMinutes, rawMinuteData)
    /\ fillMinute' = 0
    /\ pc' = "fill"
    /\ UNCHANGED <<gameStatus, homePeriods, playByPlay, diffData, leadChanges,
                   lastLead, rawMinuteData, actionIdx, interval, yMax, yMin,
                   chartHeight, maxPossibleWidth, chartWidth, chart, plotIdx,
                   content>>
    /\ UNCHANGED <<ui, mvpVars, newsVars, standingsVars>>

(***************************************************************************)
(* One iteration of the fill loop, lines 1367-1372.                        *)
(***************************************************************************)
FillMinute ==
    /\ pc = "fill"
    /\ fillMinute <= endMinute
    /\ LET d == FillDiff(rawMinuteData, fillMinute, currentDiff)
       IN  /\ currentDiff' = d
           /\ diffData' = Append(diffData, MinuteSample(fillMinute, d))
    /\ fillMinute' = fillMinute + 1
    /\ UNCHANGED <<gameStatus, homePeriods, playByPlay, pc, leadChanges,
                   lastLead, rawMinuteData, actionIdx, endMinute, interval,
                   yMax, yMin, chartHeight, maxPossibleWidth, chartWidth,
                   chart, plotIdx, content>>
    /\ UNCHANGED <<ui, mvpVars, newsVars, standingsVars>>

EndFill ==
    /\ pc = "fill"
    /\ fillMinute > endMinute
    /\ pc' = "scale"
    /\ UNCHANGED <<gameStatus, homePeriods, playByPlay, diffData, leadChanges,
                   lastLead, rawMinuteData, actionIdx, endMinute, fillMinute,
                   currentDiff, interval, yMax, yMin, chartHeight,
                   maxPossibleWidth, chartWidth, chart, plotIdx, content>>
    /\ UNCHANGED <<ui, mvpVars, newsVars, standingsVars>>

(***************************************************************************)
(* Lines 1379-1395: the scale and the chart width.  gameFlowBox.width is   *)
(* read here.                                                              *)
(***************************************************************************)
ComputeScale ==
    /\ pc = "scale"
    /\ \E boxWidth \in BoxWidths :
          /\ maxPossibleWidth' = boxWidth - ChartMargin
          /\ chartWidth' =
                ChartWidthOf(boxWidth - ChartMargin, totalGameMinutes)
    /\ interval' = IntervalOf(diffData)
    /\ yMax' = YMaxOf(diffData, interval')
    /\ yMin' = YMinOf(diffData, interval')
    /\ chartHeight' = ChartHeightOf(yMax', yMin', interval')
    /\ pc' = "grid"
    /\ UNCHANGED <<gameStatus, homePeriods, playByPlay, diffData, leadChanges,
                   lastLead, rawMinuteData, actionIdx, endMinute, fillMinute,
                   currentDiff, chart, plotIdx, content>>
    /\ UNCHANGED <<ui, mvpVars, newsVars, standingsVars>>

(***************************************************************************)
(* Line 1398: new Array(chartWidth) throws a RangeError for a negative     *)
(* length, which ends the call.                                            *)
(***************************************************************************)
CreateGrid ==
    /\ pc = "grid"
    /\ IF chartWidth < 0
         THEN /\ pc' = "RangeError"
              /\ UNCHANGED chart
         ELSE /\ pc' = "plot"
              /\ chart' = EmptyChart(chartWidth)
    /\ plotIdx' = 1
    /\ UNCHANGED <<gameStatus, homePeriods, playByPlay, diffData, leadChanges,
                   lastLead, rawMinuteData, actionIdx, endMinute, fillMinute,
                   currentDiff, interval, yMax, yMin, chartHeight,
                   maxPossibleWidth, chartWidth, content>>
    /\ UNCHANGED <<ui, mvpVars, newsVars, standingsVars>>

(***************************************************************************)
(* One iteration of the plotting loop, lines 1402-1415.                    *)
(***************************************************************************)
PlotPoint ==
    /\ pc = "plot"
    /\ plotIdx <= Len(diffData)
    /\ chart' = PlotSample(chart, diffData[plotIdx], totalGameMinutes,
                           chartWidth, chartHeight, yMax, interval)
    /\ plotIdx' = plotIdx + 1
    /\ UNCHANGED <<gameStatus, homePeriods, playByPlay, pc, diffData,
                   leadChanges, lastLead, rawMinuteData, actionIdx, endMinute,
                   fillMinute, currentDiff, interval, yMax, yMin, chartHeight,
                   maxPossibleWidth, chartWidth, content>>
    /\ UNCHANGED <<ui, mvpVars, newsVars, standingsVars>>

(***************************************************************************)
(* Lines 1417-1521: the content is built and handed to the pane.           *)
(***************************************************************************)
Render ==
    /\ pc = "plot"
    /\ plotIdx > Len(diffData)
    /\ content' = ContentOf(chart, leadChanges, yMax, interval, HasActions,
                            LabelsPlaced(totalGameMinutes, chartWidth))
    /\ pc' = "done"
    /\ UNCHANGED <<gameStatus, homePeriods, playByPlay, diffData, leadChanges,
                   lastLead, rawMinuteData, actionIdx, endMinute, fillMinute,
                   currentDiff, interval, yMax, yMin, chartHeight,
                   maxPossibleWidth, chartWidth, chart, plotIdx>>
    /\ UNCHANGED <<ui, mvpVars, newsVars, standingsVars>>

Next ==
    \/ Begin
    \/ ScanAction
    \/ StartFill
    \/ FillMinute
    \/ EndFill
    \/ ComputeScale
    \/ CreateGrid
    \/ PlotPoint
    \/ Render

Spec == Init /\ [][Next]_vars

(***************************************************************************)
(* The reconstruction alone (lines 1313-1376) on longer play-by-play       *)
(* lists of a live game in regulation.                                     *)
(***************************************************************************)
InitRecon ==
    /\ gameStatus = 2
    /\ homePeriods = 4
    /\ playByPlay \in
         {[actions |-> l] : l \in ActionLists(ScanActions, MaxScanActions)}
    /\ LocalsInit
    /\ UiIdle
    /\ MvpIdle
    /\ NewsIdle
    /\ StandingsIdle

NextRecon ==
    \/ Begin
    \/ ScanAction
    \/ StartFill
    \/ FillMinute
    \/ EndFill

SpecRecon == InitRecon /\ [][NextRecon]_vars

(***************************************************************************)
(* Properties.                                                             *)
(***************************************************************************)
\* the series is complete: the reconstruction has just ended, or the call has
ReconDone == pc \in {"scale", "done", "RangeError"}
\* the scale is set: it has just been computed, or the call has ended
ScaleDone == pc \in {"grid", "done", "RangeError"}
EmptyList == HasActions /\ Actions = <<>>

\* elapsed minutes of a sample: time * totalGameMinutes
ElapsedMinutes(s) == s.time

\* diffs of the actions that carry both scores, in input order
ScoredDiffs(l) ==
    LET scored == SelectSeq(l, HasScores)
    IN  [i \in 1..Len(scored) |-> scored[i].scoreHome - scored[i].scoreAway]

\* number of nonzero diffs whose sign is opposite to that of the most recent
\* earlier nonzero diff
FlipCount(ds) ==
    Cardinality({j \in 1..Len(ds) :
        /\ ds[j] # 0
        /\ \E i \in 1..(j - 1) :
              /\ ds[i] # 0
              /\ (ds[i] > 0) # (ds[j] > 0)
              /\ \A l \in (i + 1)..(j - 1) : ds[l] = 0})

\* the last minute of the series, from the inputs alone
ExpectedEndMinute ==
    IF ~HasActions THEN 0
    ELSE IF gameStatus = 3 THEN totalGameMinutes
    ELSE SetMax({0} \cup {MinuteKey(Actions[i]) :
                    i \in {j \in 1..Len(Actions) : HasScores(Actions[j])}})

\* C1 as stated: an empty event list gives a series of exactly one sample
\* (minute 0, time 0, diff 0) and leadChanges = 0, whatever the status.
C1_OneSample ==
    (ReconDone /\ EmptyList) =>
        /\ Len(diffData) = 1
        /\ ElapsedMinutes(diffData[1]) = 0
        /\ diffData[1].diff = 0
        /\ leadChanges = 0

\* C1 amended: an empty event list gives leadChanges = 0 and a series whose
\* samples all have diff 0: the baseline sample followed by one sample per
\* minute, minute 0 alone for a scheduled or live game (two samples) and
\* minutes 0..periodCount*12 for a final game.
C1_FlatSeries ==
    (ReconDone /\ EmptyList) =>
        /\ leadChanges = 0
        /\ diffData[1] = BaselineSample
        /\ Len(diffData) = (IF gameStatus = 3 THEN totalGameMinutes ELSE 0) + 2
        /\ \A i \in 2..Len(diffData) :
              diffData[i] = [time |-> i - 2, diff |-> 0, minute |-> i - 2]

C1_Witness ==
    /\ pc = "done"
    /\ EmptyList
    /\ gameStatus = 3
    /\ Len(diffData) = totalGameMinutes + 2

\* C2 as stated: the sample at index i (from 0) has elapsedMinutes = i for
\* every i in 0..endMinute, and no minute appears twice.
C2_IndexIsMinute ==
    ReconDone =>
        /\ \A i \in 0..ExpectedEndMinute :
              /\ i + 1 <= Len(diffData)
              /\ ElapsedMinutes(diffData[i + 1]) = i
        /\ \A i, j \in 1..Len(diffData) :
              i # j => ElapsedMinutes(diffData[i]) # ElapsedMinutes(diffData[j])

\* C2 amended: the series is the baseline sample (time 0, diff 0, no minute)
\* followed by exactly one sample per minute: the sample at index i + 1
\* (from 0) has minute i for every i in 0..endMinute, so after the baseline
\* no minute is missing and none appears twice.
C2_DenseAfterBaseline ==
    ReconDone =>
        /\ Len(diffData) = ExpectedEndMinute + 2
        /\ diffData[1] = BaselineSample
        /\ \A i \in 0..ExpectedEndMinute :
              /\ "minute" \in DOMAIN diffData[i + 2]
              /\ diffData[i + 2].minute = i
              /\ ElapsedMinutes(diffData[i + 2]) = i

C2_Witness ==
    /\ pc = "done"
    /\ gameStatus = 2
    /\ ExpectedEndMinute = 12
    /\ Len(diffData) = 14
    /\ Cardinality(DOMAIN rawMinuteData) = 2

\* C3: scanning the actions in input order, leadChanges counts exactly the
\* actions whose diff is nonzero and opposite in sign to the most recent earlier
\* nonzero diff; a diff of 0 neither counts nor resets the remembered lead
\* (diffs [0,3,-2,-5,4] give 2).
C3_LeadChanges ==
    /\ pc = "scan" =>
          leadChanges = FlipCount(ScoredDiffs(SubSeq(Actions, 1, actionIdx - 1)))
    /\ (HasActions /\ pc \notin {"start", "scan"}) =>
          leadChanges = FlipCount(ScoredDiffs(Actions))
    /\ (pc \notin {"start", "scan"} /\ ScoredDiffs(Actions) = <<0, 3, -2, -5, 4>>) =>
          leadChanges = 2
    /\ (pc \notin {"start", "scan"} /\ ScoredDiffs(Actions) = <<3, 0, 3>>) =>
          leadChanges = 0
    /\ (pc \notin {"start", "scan"} /\ ScoredDiffs(Actions) = <<3, 0, -2>>) =>
          leadChanges = 1

C3_Witness ==
    /\ pc = "scale"
    /\ ScoredDiffs(Actions) = <<0, 3, -2, -5, 4>>
    /\ leadChanges = 2

\* the minute whose diff minute mn shows: the nearest minute at or before
\* mn that has a bucket
CarriedDiff(mn) ==
    LET seen == {q \in DOMAIN rawMinuteData : 0 <= q /\ q <= mn}
    IN  IF seen = {} THEN 0 ELSE rawMinuteData[SetMax(seen)]

GapFillExample ==
    <<ScoredAction(1, IsoClock(11, 30), 2, 0),
      ScoredAction(1, IsoClock(10, 0), 2, 5)>>

\* C4: every minute in 0..endMinute with a bucket takes the bucket's diff and
\* every minute without one takes the diff of the nearest earlier minute that
\* has one (0 if none); (period 1, 11:30, 2-0) then (period 1, 10:00, 2-5) of
\* a live game give minute 0 diff +2, minute 1 diff +2, minute 2 diff -3.
C4_GapFill ==
    /\ (ReconDone /\ HasActions) =>
          \A mn \in 0..endMinute :
              /\ diffData[mn + 2].minute = mn
              /\ diffData[mn + 2].diff = CarriedDiff(mn)
    /\ (ReconDone /\ HasActions /\ Actions = GapFillExample /\ gameStatus = 2) =>
          diffData = <<BaselineSample, MinuteSample(0, 2), MinuteSample(1, 2),
                       MinuteSample(2, -3)>>

C4_Witness ==
    /\ pc = "done"
    /\ HasActions
    /\ Actions = GapFillExample
    /\ gameStatus = 2
    /\ diffData[3].diff = 2
    /\ 1 \notin DOMAIN rawMinuteData

\* what a call without play-by-play produces: two samples at time 0 with
\* diff 0, no lead change, one glyph in column 0 on the zero row
IsBaselineResult ==
    /\ diffData = <<[time |-> 0, diff |-> 0],
                    [time |-> 0, diff |-> 0, minute |-> 0]>>
    /\ leadChanges = 0
    /\ content.leadChanges = 0
    /\ interval = 2 /\ yMax = 2 /\ yMin = -2 /\ chartHeight = 3
    /\ chart = [x \in 0..(chartWidth - 1) |-> IF x = 0 THEN {1} ELSE {}]
    /\ content.glyphs =
          [x \in 0..(chartWidth - 1) |->
              IF x = 0 THEN {<<1, "tied">>} ELSE {}]

\* C5 as stated: for every box score an empty event list produces the same
\* series, lead-change count and chart as a null play-by-play.
C5_EmptyLikeNull ==
    /\ (pc = "done" /\ ~HasActions) => IsBaselineResult
    /\ (pc = "done" /\ EmptyList) => IsBaselineResult

\* C5 amended: for every box score whose status is not final, an empty event
\* list produces the same series, lead-change count and chart grid as a null
\* play-by-play; only the "Recent Plays" heading is added for the list.
C5_EmptyLikeNullUnlessFinal ==
    /\ (pc = "done" /\ ~HasActions) =>
          IsBaselineResult /\ ~content.recentPlays
    /\ (pc = "done" /\ EmptyList /\ gameStatus # 3) =>
          IsBaselineResult /\ content.recentPlays
    /\ (pc = "RangeError") => maxPossibleWidth < 0

C5_Witness ==
    /\ pc = "done"
    /\ EmptyList
    /\ gameStatus = 2
    /\ chartWidth >= 2
    /\ chart[0] = {1}

\* C6: an action whose clock matches no clock format raises no error; it is
\* bucketed at minute 12 * (period - 1) and its diff and lead-change
\* contribution are processed like those of any other action.
C6_MalformedClock ==
    (pc = "scan" /\ actionIdx > 1) =>
        LET a == Actions[actionIdx - 1]
        IN  (HasScores(a) /\ a.clock.fmt = "bad") =>
                /\ 12 * (a.period - 1) \in DOMAIN rawMinuteData
                /\ rawMinuteData[12 * (a.period - 1)] = a.scoreHome - a.scoreAway
                /\ leadChanges =
                      FlipCount(ScoredDiffs(SubSeq(Actions, 1, actionIdx - 1)))
                /\ lastLead = a.scoreHome - a.scoreAway

C6_Witness ==
    /\ pc = "scan"
    /\ actionIdx = 3
    /\ Actions[2].clock.fmt = "bad"
    /\ Actions[1].clock.fmt = "iso"
    /\ HasScores(Actions[1])
    /\ rawMinuteData[12] = -21
    /\ leadChanges = 1

\* C7: for every pane width, also when the computed column count is 0 or
\* negative, the rasterization raises no error and the grid has at least one
\* column.
C7_AlwaysAGrid ==
    /\ pc # "RangeError"
    /\ pc \in {"plot", "done"} => Cardinality(DOMAIN chart) >= 1

LargestDiff == SetMax(Diffs(diffData))
SmallestDiff == SetMin(Diffs(diffData))
SeriesOf(ds) == [i \in 1..Len(ds) |-> [time |-> i - 1, diff |-> ds[i]]]

\* C8: yMax is the least multiple of interval that is >= max(dataMax, 1) and
\* yMin the greatest multiple of interval that is <= min(dataMin, -1), so
\* yMin < 0 < yMax even for a one-sided series (diffs [0,5,8]: interval 2,
\* yMin -2, yMax 8), and rows = (yMax - yMin) / interval + 1.
C8_Scale ==
    ScaleDone =>
          /\ yMax % interval = 0
          /\ yMin % interval = 0
          /\ yMax >= Max(LargestDiff, 1)
          /\ yMax - interval < Max(LargestDiff, 1)
          /\ yMin <= Min(SmallestDiff, -1)
          /\ yMin + interval > Min(SmallestDiff, -1)
          /\ yMin < 0 /\ 0 < yMax
          /\ (chartHeight - 1) * interval = yMax - yMin
          /\ IntervalOf(SeriesOf(<<0, 5, 8>>)) = 2
          /\ YMinOf(SeriesOf(<<0, 5, 8>>), 2) = -2
          /\ YMaxOf(SeriesOf(<<0, 5, 8>>), 2) = 8

C8_Witness ==
    /\ pc = "done"
    /\ SmallestDiff = 0
    /\ LargestDiff = 20
    /\ yMin = -2
    /\ yMax = 20
    /\ chartHeight = 12

LargestAbsDiff == SetMax({Abs(d) : d \in Diffs(diffData)})

\* C9: the interval is 4 exactly when the largest absolute diff of the series
\* is greater than 20, and 2 otherwise (20 gives 2, 21 gives 4).
C9_Interval ==
    ScaleDone =>
        /\ interval \in {2, 4}
        /\ (interval = 4) <=> (LargestAbsDiff > 20)
        /\ LargestAbsDiff = 20 => interval = 2
        /\ LargestAbsDiff = 21 => interval = 4

C9_Witness ==
    /\ pc = "done"
    /\ LargestAbsDiff = 21
    /\ interval = 4

\* samples that the plotting loop puts into column x
SamplesInColumn(x) ==
    {i \in 1..Len(diffData) :
        /\ ColumnOf(diffData[i].time, totalGameMinutes, chartWidth) = x
        /\ InGrid(x, RowOf(diffData[i].diff, yMax, interval),
                  chartWidth, chartHeight)}

\* C10 as stated: after plotting, each column holds exactly one glyph.
C10_ExactlyOne ==
    pc = "done" =>
        \A x \in 0..(chartWidth - 1) : Cardinality(chart[x]) = 1

\* C10 amended: after plotting, each column holds at most one glyph: exactly
\* one if at least one sample maps into the column, none otherwise.
C10_AtMostOne ==
    pc = "done" =>
        \A x \in 0..(chartWidth - 1) :
            /\ Cardinality(chart[x]) <= 1
            /\ (chart[x] # {}) <=> (SamplesInColumn(x) # {})

C10_Witness ==
    /\ pc = "done"
    /\ chartWidth >= 3
    /\ \E x \in 0..(chartWidth - 1) : Cardinality(SamplesInColumn(x)) >= 2
    /\ \E x \in 0..(chartWidth - 1) : chart[x] = {}
    /\ \E x, z \in 0..(chartWidth - 1) : chart[x] # {} /\ chart[z] # {} /\ chart[x] # chart[z]

(***************************************************************************)
(* The whole of renderGameFlow on a live or final game in regulation with  *)
(* leads of one or two points next to a blowout.                           *)
(***************************************************************************)
InitChart ==
    /\ gameStatus \in {2, 3}
    /\ homePeriods = 4
    /\ playByPlay \in
         {[actions |-> l] : l \in ActionLists(ChartActions, MaxChartActions)}
    /\ LocalsInit
    /\ UiIdle
    /\ MvpIdle
    /\ NewsIdle
    /\ StandingsIdle

SpecChart == InitChart /\ [][Next]_vars

\* the sample a glyph in column x stands for: the last one plotted there
ShownSample(x) == diffData[SetMax(SamplesInColumn(x))]

SideOf(d) == IF d > 0 THEN "home" ELSE IF d < 0 THEN "away" ELSE "tied"

\* C11: every plotted glyph has the colour of the side leading in the sample
\* it stands for: home when diff > 0, away when diff < 0, neutral when
\* diff = 0, for both intervals.
C11_ColourBySign ==
    pc = "done" =>
        \A x \in DOMAIN content.glyphs :
            \A g \in content.glyphs[x] : g[2] = SideOf(ShownSample(x).diff)

\* scored actions of the play-by-play, in input order
ScoredActions == SelectSeq(Actions, HasScores)
InGameTimeOrder ==
    \A i, j \in 1..Len(ScoredActions) :
        i <= j => MinuteKey(ScoredActions[i]) <= MinuteKey(ScoredActions[j])

\* Math.round(d / iv): the integer r with r <= d / iv + 1/2 < r + 1
NearestStep(d, iv) ==
    CHOOSE r \in -(Abs(d) + 1)..(Abs(d) + 1) :
        2 * r * iv <= 2 * d + iv /\ 2 * d + iv < 2 * (r + 1) * iv

\* C12: for a final game with 4 periods whose last score-bearing action has
\* diff d (actions in game-time order, at least one column), the rightmost
\* populated column is column cols - 1 and its glyph lies round(d / interval)
\* rows above the zero row (d = +6: 3 rows above with interval 2).
C12_FinalColumn ==
    (/\ pc = "done"
     /\ gameStatus = 3
     /\ numPeriods = 4
     /\ chartWidth >= 1
     /\ Len(ScoredActions) >= 1
     /\ InGameTimeOrder) =>
        LET last == ScoredActions[Len(ScoredActions)]
            d == last.scoreHome - last.scoreAway
        IN  /\ chart[chartWidth - 1] =
                  {YZero(yMax, interval) - NearestStep(d, interval)}
            /\ (d = 6 /\ interval = 2) =>
                  chart[chartWidth - 1] = {YZero(yMax, interval) - 3}

C12_Witness ==
    /\ pc = "done"
    /\ gameStatus = 3
    /\ chartWidth > 2
    /\ Len(ScoredActions) = 2
    /\ InGameTimeOrder
    /\ ScoredActions[1].scoreAway = 2
    /\ ScoredActions[2].scoreHome = 6
    /\ interval = 2
    /\ chart[chartWidth - 1] = {0}
    /\ YZero(yMax, interval) = 3

\* scored actions that fall into minute bucket 0
InBucketZero == SelectSeq(ScoredActions, LAMBDA a : MinuteKey(a) = 0)

\* C13 as stated: the sample at elapsed minute 0 has diff 0 whatever the
\* actions, so the glyph in column 0 is on the zero row.
C13_MinuteZeroIsZero ==
    /\ ReconDone =>
          \A i \in 1..Len(diffData) :
              ElapsedMinutes(diffData[i]) = 0 => diffData[i].diff = 0
    /\ (pc = "done" /\ chartWidth >= 1) =>
          chart[0] = {YZero(yMax, interval)}

\* C13 amended: the first sample of the series (the baseline at time 0) has
\* diff 0 whatever the actions; the minute-0 sample that follows it has the
\* diff of the last action in minute bucket 0 (0 if there is none), and
\* the glyph in column 0 is at the row of the last sample plotted there.
C13_BaselineIsZero ==
    /\ ReconDone =>
          /\ diffData[1] = BaselineSample
          /\ diffData[2].minute = 0
          /\ diffData[2].diff =
                (IF Len(InBucketZero) = 0 THEN 0
                 ELSE LET a == InBucketZero[Len(InBucketZero)]
                      IN  a.scoreHome - a.scoreAway)
    /\ (pc = "done" /\ chartWidth >= 1) =>
          chart[0] = {YZero(yMax, interval)
                        - NearestStep(ShownSample(0).diff, interval)}

C13_Witness ==
    /\ pc = "done"
    /\ chartWidth > 2
    /\ Len(InBucketZero) = 1
    /\ diffData[2].diff = 2
    /\ chart[0] = {YZero(yMax, interval) - 1}

(***************************************************************************)
(* The interface around renderGameFlow: the module-level state of          *)
(* src/index.js (lines 190-203, 554-555), the widgets the handlers touch   *)
(* and the asynchronous calls in flight, kept in the record `ui`.  Every   *)
(* handler is an operator from a value of that record to the next one, so  *)
(* that the handlers one key press runs can be applied one after another.  *)
(*                                                                         *)
(* Fetched data is identified by the game it was fetched for; a fetch that *)
(* failed (null) is FALSE, one that succeeded is TRUE.  The pane is taken  *)
(* to be wide enough for renderGameFlow to return.  The self-update        *)
(* tooling (checkForUpdates, performUpdate and their dialog) stays outside.*)
(***************************************************************************)
NumGames == 3            \* games on the scoreboard
MaxPending == 2          \* asynchronous calls in flight at a time

NoGame == 0                                   \* detailView = null
Scoreboard == [i \in 1..NumGames |-> i]       \* scoreboard.games, by gameId
FetchScoresResults == {Null, [games |-> Scoreboard]}
FetchResults == BOOLEAN

\* items of gameList
HeaderRow == [row |-> "header"]
SeparatorRow == [row |-> "separator"]
GameRow(g) == [row |-> "game", gameId |-> g]
FailedRow == [row |-> "Failed to fetch scores. Retrying..."]
NoGamesRow == [row |-> "No games scheduled for today."]
LoadingRow == [row |-> "Loading NBA data..."]

\* content of gameFlowBox and boxScoreBox
NothingShown == [shows |-> "nothing"]
LoadingShown == [shows |-> "Loading"]
FailedShown == [shows |-> "Failed to load"]
FlowShown(g, plays) == [shows |-> "game flow", gameId |-> g, plays |-> plays]
BoxShown(g) == [shows |-> "box score", gameId |-> g]

\* asynchronous calls waiting at an await
ShowDetailViewCall(g) == [op |-> "showDetailView", gameId |-> g]
RefreshScoresCall == [op |-> "refreshScores"]
RefreshDetailCall(g) == [op |-> "refreshScores.detail", gameId |-> g]

\* the calls in flight are a bag: their order of arrival decides nothing
Await(u, call) == [u EXCEPT !.pending = @ (+) SetToBag({call})]
Resume(u, call) == [u EXCEPT !.pending = @ (-) SetToBag({call})]
InFlight(u) == BagToSet(u.pending)

\* blessed: List.setItems keeps the selection inside the list, List.select
\* clamps its argument
setItems(u, items) ==
    [u EXCEPT !.items = items,
              !.selected = Max(0, Min(@, Len(items) - 1))]
select(u, index) ==
    [u EXCEPT !.selected = Max(0, Min(index, Len(u.items) - 1))]

MainWidget(view) ==
    CASE view = "scores" -> "gameList"
      [] view = "standings" -> "standingsContent"
      [] OTHER -> "transactionsLeftPanel"

renderScoresView(u) ==
    IF u.scoresData = Null
      THEN setItems(u, <<FailedRow>>)
      ELSE LET games == u.scoresData.games
               u1 == [u EXCEPT !.currentGames = games]
           IN  IF Len(games) = 0
                 THEN setItems(u1, <<NoGamesRow>>)
                 ELSE LET items == <<HeaderRow, SeparatorRow>> \o
                                   [i \in 1..Len(games) |-> GameRow(games[i])]
                          prevSelected == u1.selected
                      IN  select(setItems(u1, items), Max(2, prevSelected))

renderCurrentView(u) ==
    IF u.mainView = "scores"
      THEN [renderScoresView(u) EXCEPT !.focus = "gameList"]
      ELSE [u EXCEPT !.focus = MainWidget(u.mainView)]

showConfirmDialog(u) ==
    [u EXCEPT !.confirmVisible = TRUE, !.focus = "confirmDialog"]
hideConfirmDialog_ToScores(u) ==
    [u EXCEPT !.confirmVisible = FALSE, !.mainView = "scores",
              !.focus = "gameList"]
hideConfirmDialog(u) ==
    [u EXCEPT !.confirmVisible = FALSE, !.focus = MainWidget(u.mainView)]

updateDetailFocus(u) ==
    [u EXCEPT !.focus = IF u.detailFocus = "gameFlow" THEN "gameFlowBox"
                                                      ELSE "boxScoreBox"]

showListView_AskToQuit(u) ==
    [u EXCEPT !.detailView = NoGame,
              !.detailShown = FALSE,
              !.confirmVisible = TRUE,
              !.focus = "confirmDialog"]
showListView(u) ==
    [u EXCEPT !.detailView = NoGame,
              !.detailShown = FALSE,
              !.focus = MainWidget(u.mainView)]

\* showDetailView up to its await (lines 1570-1598)
showDetailView(u, g) ==
    Await(updateDetailFocus(
              [u EXCEPT !.detailView = g,
                        !.detailShown = TRUE,
                        !.gameFlowBox = LoadingShown,
                        !.boxScoreBox = LoadingShown,
                        !.detailFocus = "boxScore"]),
          ShowDetailViewCall(g))

\* lines 1715-1718: both panes are written when the box score arrived
renderDetail(u, g, boxScore, plays) ==
    IF boxScore
      THEN [u EXCEPT !.gameFlowBox = FlowShown(g, plays),
                     !.boxScoreBox = BoxShown(g)]
      ELSE u

\* showDetailView after its await (lines 1604-1612)
showDetailViewLoaded(u, g, boxScore, plays) ==
    updateDetailFocus(
        IF boxScore
          THEN renderDetail(u, g, boxScore, plays)
          ELSE [u EXCEPT !.gameFlowBox = FailedShown,
                         !.boxScoreBox = FailedShown])

\* refreshScores after `await fetchScores()` (lines 1697-1713)
refreshScoresFetched(u, data) ==
    LET u1 == [u EXCEPT !.scoresData = data]
    IN  IF u1.detailView = NoGame /\ u1.mainView = "scores"
          THEN renderScoresView(u1)
          ELSE IF u1.detailView # NoGame /\ data # Null
                 THEN IF \E i \in DOMAIN data.games :
                              data.games[i] = u1.detailView
                        THEN Await(u1, RefreshDetailCall(u1.detailView))
                        ELSE u1
                 ELSE u1

\* the handlers given to screen.key (lines 623-653, 721-772)
SwitchView(u, view) == renderCurrentView([u EXCEPT !.mainView = view])
Exit(u) == [u EXCEPT !.proc = "exited"]

LeftOf(view) ==
    CASE view = "standings" -> "scores"
      [] view = "tradeNews" -> "standings"
      [] OTHER -> view
RightOf(view) ==
    CASE view = "scores" -> "standings"
      [] view = "standings" -> "tradeNews"
      [] OTHER -> view

ScreenKey(k, u) ==
    LET inDetail == u.detailView # NoGame
        blocked == u.confirmVisible \/ inDetail
    IN  CASE k = "escape" ->
               IF u.confirmVisible THEN hideConfirmDialog(u)
               ELSE IF inDetail THEN showListView(u)
               ELSE u
          [] k = "q" ->
               IF u.confirmVisible THEN u
               ELSE IF inDetail THEN showListView(u)
               ELSE showConfirmDialog(u)
          [] k = "C-c" -> Exit(u)
          [] k = "tab" ->
               IF inDetail
                 THEN updateDetailFocus(
                        [u EXCEPT !.detailFocus =
                            IF @ = "gameFlow" THEN "boxScore" ELSE "gameFlow"])
                 ELSE u
          [] k = "1" -> IF blocked THEN u ELSE SwitchView(u, "scores")
          [] k = "2" -> IF blocked THEN u ELSE SwitchView(u, "standings")
          [] k = "3" -> IF blocked THEN u ELSE SwitchView(u, "tradeNews")
          [] k \in {"left", "h"} ->
               IF blocked THEN u ELSE SwitchView(u, LeftOf(u.mainView))
          [] k \in {"right", "l"} ->
               IF blocked THEN u ELSE SwitchView(u, RightOf(u.mainView))
          [] OTHER -> u

\* the handlers given to the widgets (lines 598-620, 655-668), and the
\* list's own cursor keys
FocusedKey(focused, k, u) ==
    CASE focused = "confirmDialog" /\ k \in {"y", "q", "enter"} -> Exit(u)
      [] focused = "confirmDialog" /\ k \in {"n", "escape"} ->
           hideConfirmDialog(u)
      [] focused = "gameList" /\ k \in {"space", "enter"} ->
           LET selectedIndex == u.selected
           IN  IF selectedIndex + 1 \in DOMAIN u.currentGames
                 THEN showDetailView(u, u.currentGames[selectedIndex + 1])
                 ELSE u
      [] focused = "gameList" /\ k \in {"down", "j"} ->
           select(u, u.selected + 1)
      [] focused = "gameList" /\ k \in {"up", "k"} ->
           select(u, u.selected - 1)
      [] focused \in {"boxScoreBox", "gameFlowBox"} /\ k \in {"escape", "q"} ->
           showListView(u)
      [] OTHER -> u

Keys ==
    {"q", "escape", "C-c", "y", "n", "enter", "space", "tab", "1", "2", "3",
     "left", "h", "right", "l", "down", "j", "up", "k"}

\* blessed: a key press runs the screen's handlers, then those of the
\* widget that had the focus when the key arrived
Dispatch(k, u) ==
    LET u1 == ScreenKey(k, u)
    IN  IF u1.proc = "running" THEN FocusedKey(u.focus, k, u1) ELSE u1

\* the state main() leaves behind (lines 1744-1765) when the first
\* fetchScores returned data
UiStart(data) ==
    LET u0 == [proc |-> "running",
               mainView |-> "scores",
               detailView |-> NoGame,
               detailFocus |-> "boxScore",
               confirmVisible |-> FALSE,
               focus |-> "gameList",
               scoresData |-> data,
               currentGames |-> <<>>,
               items |-> <<LoadingRow>>,
               selected |-> 0,
               detailShown |-> FALSE,
               gameFlowBox |-> NothingShown,
               boxScoreBox |-> NothingShown,
               pending |-> EmptyBag]
    IN  select(renderCurrentView(renderScoresView(u0)), 2)

(***************************************************************************)
(* The interface as a state machine: key presses, the timers of main()     *)
(* and the completions of the calls in flight, in any order.  The Tab key  *)
(* inside the Transactions view hands the keyboard to the search box and   *)
(* is not pressed here; the mouse is not used.                             *)
(***************************************************************************)
FlowIdle ==
    /\ gameStatus = 2
    /\ homePeriods = 4
    /\ playByPlay = Null
    /\ LocalsInit

InitUI ==
    /\ ui \in {UiStart(data) : data \in FetchScoresResults}
    /\ FlowIdle
    /\ MvpIdle
    /\ NewsIdle
    /\ StandingsIdle

Running == ui.proc = "running"

KeyPress(k) ==
    /\ Running
    /\ ~(k = "tab" /\ ui.detailView = NoGame /\ ui.mainView = "tradeNews")
    /\ LET u == Dispatch(k, ui)
       IN  /\ BagCardinality(u.pending) <= MaxPending
           /\ ui' = u
    /\ UNCHANGED <<flowVars, mvpVars, newsVars, standingsVars>>

Key == \E k \in Keys : KeyPress(k)

\* setInterval(refreshScores, REFRESH_INTERVAL)
RefreshTimer ==
    /\ Running
    /\ BagCardinality(ui.pending) < MaxPending
    /\ ui' = Await(ui, RefreshScoresCall)
    /\ UNCHANGED <<flowVars, mvpVars, newsVars, standingsVars>>

FetchScoresDone ==
    /\ Running
    /\ RefreshScoresCall \in InFlight(ui)
    /\ \E data \in FetchScoresResults :
          ui' = refreshScoresFetched(Resume(ui, RefreshScoresCall), data)
    /\ UNCHANGED <<flowVars, mvpVars, newsVars, standingsVars>>

DetailFetchDone ==
    /\ Running
    /\ \E call \in InFlight(ui) :
          /\ call.op = "showDetailView"
          /\ \E boxScore \in FetchResults, plays \in FetchResults :
                ui' = showDetailViewLoaded(Resume(ui, call), call.gameId,
                                           boxScore, plays)
    /\ UNCHANGED <<flowVars, mvpVars, newsVars, standingsVars>>

RefreshDetailDone ==
    /\ Running
    /\ \E call \in InFlight(ui) :
          /\ call.op = "refreshScores.detail"
          /\ \E boxScore \in FetchResults, plays \in FetchResults :
                ui' = renderDetail(Resume(ui, call), call.gameId,
                                   boxScore, plays)
    /\ UNCHANGED <<flowVars, mvpVars, newsVars, standingsVars>>

NextUI ==
    \/ Key
    \/ RefreshTimer
    \/ FetchScoresDone
    \/ DetailFetchDone
    \/ RefreshDetailDone

SpecUI == InitUI /\ [][NextUI]_vars

(***************************************************************************)
(* Properties of the interface.                                            *)
(***************************************************************************)
DetailOpen == ui.detailView # NoGame
ShowsGame(pane) == pane.shows \in {"game flow", "box score"}

\* the step is the press of key k
KeyStep(k) == Running /\ ui' = Dispatch(k, ui)

\* C14: whenever the detail view is open for game G, what its two panes
\* show was computed from data fetched for G, whatever the order of key
\* presses, timer ticks and fetch completions.
C14_PanesShowOpenGame ==
    DetailOpen =>
        \A pane \in {ui.gameFlowBox, ui.boxScoreBox} :
            ShowsGame(pane) => pane.gameId = ui.detailView

\* the step is the end of a refresh cycle of the detail view whose fetches
\* returned boxScore and plays
RefreshDetailStep(call, boxScore, plays) ==
    /\ Running
    /\ call \in InFlight(ui)
    /\ call.op = "refreshScores.detail"
    /\ ui' = renderDetail(Resume(ui, call), call.gameId, boxScore, plays)

\* C15: a refresh cycle of the open detail view in which the box-score
\* fetch or the play-by-play fetch returned null leaves the content of the
\* game-flow pane as it was.
C15_FailedFetchKeepsChart ==
    [][\A call \in InFlight(ui), boxScore \in FetchResults,
          plays \in FetchResults :
          (/\ DetailOpen
           /\ ~(boxScore /\ plays)
           /\ RefreshDetailStep(call, boxScore, plays))
          => ui'.gameFlowBox = ui.gameFlowBox]_vars

\* the Scores view with the keyboard on its list
OnScoresList ==
    /\ Running
    /\ ui.mainView = "scores"
    /\ ~DetailOpen
    /\ ~ui.confirmVisible
    /\ ui.focus = "gameList"
HighlightedRow == ui.items[ui.selected + 1]

\* C16: in the Scores view Space or Enter on the row of game g opens the
\* detail view of g, wherever g stands in the list, and on the header or
\* the separator row opens nothing.
C16_OpensHighlightedGame ==
    [][\A k \in {"space", "enter"} :
          (OnScoresList /\ KeyStep(k)) =>
             /\ HighlightedRow.row = "game" =>
                   ui'.detailView = HighlightedRow.gameId
             /\ HighlightedRow.row \in {"header", "separator"} =>
                   ui'.detailView = NoGame]_vars

\* C17: q from a main view only shows the dialog; with the dialog showing
\* the next q, Y or Enter exits and N or Esc hides it, mainView and
\* detailView as they were; nothing but Ctrl+C exits with no dialog showing.
C17_QuitThroughDialog ==
    [][/\ (~DetailOpen /\ ~ui.confirmVisible /\ KeyStep("q")) =>
             /\ ui'.proc = "running"
             /\ ui'.confirmVisible
             /\ ui'.mainView = ui.mainView
             /\ ui'.detailView = ui.detailView
       /\ \A k \in {"q", "y", "enter"} :
             (ui.confirmVisible /\ KeyStep(k)) => ui'.proc = "exited"
       /\ \A k \in {"n", "escape"} :
             (ui.confirmVisible /\ KeyStep(k)) =>
                /\ ui'.proc = "running"
                /\ ~ui'.confirmVisible
                /\ ui'.mainView = ui.mainView
                /\ ui'.detailView = ui.detailView
       /\ (Running /\ ui'.proc = "exited") =>
             ui.confirmVisible \/ KeyStep("C-c")]_vars

\* the same with the dialog holding the keyboard: the statement the code
\* meets
C17_DialogFocused ==
    [][/\ (~DetailOpen /\ ~ui.confirmVisible /\ KeyStep("q")) =>
             /\ ui'.proc = "running"
             /\ ui'.confirmVisible
             /\ ui'.mainView = ui.mainView
             /\ ui'.detailView = ui.detailView
       /\ \A k \in {"q", "y", "enter"} :
             (ui.focus = "confirmDialog" /\ KeyStep(k)) => ui'.proc = "exited"
       /\ \A k \in {"n", "escape"} :
             (ui.focus = "confirmDialog" /\ KeyStep(k)) =>
                /\ ui'.proc = "running"
                /\ ~ui'.confirmVisible
                /\ ui'.mainView = ui.mainView
                /\ ui'.detailView = ui.detailView
       /\ (Running /\ ui'.proc = "exited") =>
             ui.confirmVisible \/ KeyStep("C-c")]_vars

\* C18: with the detail view open, q or Esc closes it and leaves mainView
\* alone; it neither brings up the quit dialog nor ends the process.
C18_BackToMainView ==
    [][\A k \in {"q", "escape"} :
          (DetailOpen /\ KeyStep(k)) =>
             /\ ui'.detailView = NoGame
             /\ ~ui'.detailShown
             /\ ui'.mainView = ui.mainView
             /\ ui'.proc = "running"
             /\ ui'.confirmVisible => ui.confirmVisible]_vars

\* a game was opened and closed again while its data was still on the way
C18_Witness ==
    /\ Running
    /\ ~DetailOpen
    /\ ~ui.detailShown
    /\ \E call \in InFlight(ui) : call.op = "showDetailView"

\* C19: from a main view with no dialog and no detail view, 1, h and Left
\* lead to Scores and 2, l and Right lead to Standings.
C19_DirectSwitch ==
    [][/\ \A k \in {"1", "h", "left"} :
             (~DetailOpen /\ ~ui.confirmVisible /\ KeyStep(k)) =>
                ui'.mainView = "scores"
       /\ \A k \in {"2", "l", "right"} :
             (~DetailOpen /\ ~ui.confirmVisible /\ KeyStep(k)) =>
                ui'.mainView = "standings"]_vars

(***************************************************************************)
(* getGameMVP (src/index.js lines 976-996) on one scoreboard game.  A      *)
(* game carries gameStatus and gameLeaders; gameLeaders is null or holds   *)
(* the two leaders; a leader is null or has points, a number as the        *)
(* scoreboard feed sends it.  The result is null or names the side of the  *)
(* chosen leader and his points.                                           *)
(***************************************************************************)
LeaderPoints == {0, 7, 18, 31}
Leaders == {Null} \cup {[points |-> p] : p \in LeaderPoints}
GameLeaders ==
    {Null} \cup [homeLeaders : Leaders, awayLeaders : Leaders]
MvpGames == [gameStatus : GameStatuses, gameLeaders : GameLeaders]

\* !leader?.points : no leader, or points 0
NoPoints(leader) == leader = Null \/ leader.points = 0

getGameMVP(game) ==
    LET leaders == game.gameLeaders
    IN  IF leaders = Null \/ game.gameStatus = 1 THEN Null
        ELSE LET homeLeader == leaders.homeLeaders
                 awayLeader == leaders.awayLeaders
             IN  IF NoPoints(homeLeader) \/ NoPoints(awayLeader) THEN Null
                 ELSE LET homePts == homeLeader.points
                          awayPts == awayLeader.points
                      IN  IF homePts >= awayPts
                            THEN [team |-> "home", pts |-> homePts]
                            ELSE [team |-> "away", pts |-> awayPts]

InitMVP ==
    /\ mvpGame \in MvpGames
    /\ mvp = Idle
    /\ FlowIdle
    /\ UiIdle
    /\ NewsIdle
    /\ StandingsIdle

\* `const mvp = getGameMVP(game)` in buildGameRow (line 1025)
CallGetGameMVP ==
    /\ mvp = Idle
    /\ mvp' = getGameMVP(mvpGame)
    /\ UNCHANGED <<flowVars, ui, mvpGame, newsVars, standingsVars>>

NextMVP == CallGetGameMVP

SpecMVP == InitMVP /\ [][NextMVP]_vars

\* the game has started and names a leader on both sides
HasLeaderData ==
    /\ mvpGame.gameStatus # 1
    /\ mvpGame.gameLeaders # Null
    /\ mvpGame.gameLeaders.homeLeaders # Null
    /\ mvpGame.gameLeaders.awayLeaders # Null

TopPerformer ==
    LET homePts == mvpGame.gameLeaders.homeLeaders.points
        awayPts == mvpGame.gameLeaders.awayLeaders.points
    IN  IF homePts >= awayPts THEN [team |-> "home", pts |-> homePts]
                              ELSE [team |-> "away", pts |-> awayPts]

\* C20: for a started game with leader data getGameMVP returns the leader
\* with more points, the home leader on a tie, also when one of the two
\* leaders has 0 points.
C20_TopPerformer ==
    (mvp # Idle /\ HasLeaderData) => mvp = TopPerformer

(***************************************************************************)
(* The reconstruction alone (lines 1313-1376) on a live game in regulation *)
(* whose actions differ in their place in the game, in the format of their *)
(* clock and in whether they carry the scores.                             *)
(***************************************************************************)
MaxBucketActions == 3    \* longest play-by-play list of the bucket runs

BucketTimes ==
    {<<1, IsoClock(11, 30)>>, <<1, IsoClock(10, 0)>>, <<1, MmSsClock(8, 0)>>,
     <<1, IsoClock(4, 0)>>}
BucketScores == {<<3, 0>>, <<3, 5>>}
BucketActions ==
    {ScoredAction(t[1], t[2], s[1], s[2]) : t \in BucketTimes,
                                            s \in BucketScores}
        \cup {UnscoredAction(1, IsoClock(6, 0))}

InitBuckets ==
    /\ gameStatus = 2
    /\ homePeriods = 4
    /\ playByPlay \in
         {[actions |-> l] : l \in ActionLists(BucketActions, MaxBucketActions)}
    /\ LocalsInit
    /\ UiIdle
    /\ MvpIdle
    /\ NewsIdle
    /\ StandingsIdle

SpecBuckets == InitBuckets /\ [][NextRecon]_vars

\* the actions the scan loop has been through
Scanned ==
    IF pc = "start" THEN <<>>
    ELSE IF pc = "scan" THEN SubSeq(Actions, 1, actionIdx - 1)
    ELSE Actions

\* floor((period - 1) * 12 + 12 - minutesLeft - secondsLeft / 60), in seconds
BucketOf(a) ==
    FloorDiv(((IF a.period = 0 THEN 1 ELSE a.period) - 1) * 720 + 720
                 - 60 * MinutesLeft(a.clock) - SecondsLeft(a.clock), 60)

\* positions in l of the actions with both scores that fall in bucket b
WritersOf(l, b) ==
    {i \in 1..Len(l) : HasScores(l[i]) /\ BucketOf(l[i]) = b}

\* C21: every action with both scores writes scoreHome - scoreAway into the
\* bucket floor((period-1)*12 + 12 - minutesLeft - secondsLeft/60); a bucket
\* holds the diff of the last action in input order that fell into it, and
\* an action missing a score writes nothing.
C21_Buckets ==
    pc # "start" =>
        /\ DOMAIN rawMinuteData =
              {BucketOf(Scanned[i]) :
                  i \in {j \in 1..Len(Scanned) : HasScores(Scanned[j])}}
        /\ \A b \in DOMAIN rawMinuteData :
              LET last == Scanned[SetMax(WritersOf(Scanned, b))]
              IN  rawMinuteData[b] = last.scoreHome - last.scoreAway

\* two scored actions fell into bucket 0, the later one behind the lead of
\* the earlier, next to an action without scores
C21_Witness ==
    /\ pc = "fill"
    /\ Len(Actions) = 3
    /\ Cardinality(WritersOf(Actions, 0)) = 2
    /\ \E i \in 1..3 : ~HasScores(Actions[i])
    /\ rawMinuteData[0] = -2
    /\ \E i \in WritersOf(Actions, 0) : ActionDiff(Actions[i]) = 3

(***************************************************************************)
(* The end of the series.                                                  *)
(***************************************************************************)
PeriodCount == IF homePeriods > 4 THEN homePeriods ELSE 4
LastSample == diffData[Len(diffData)]
LargestBucket == SetMax(DOMAIN rawMinuteData)

\* C22 as stated: the last minute of the series is periodCount * 12 when the
\* game is final and otherwise the largest bucket an action wrote.
C22_LastMinute ==
    ReconDone =>
        /\ gameStatus = 3 => LastSample.minute = PeriodCount * 12
        /\ (gameStatus # 3 /\ DOMAIN rawMinuteData # {}) =>
              LastSample.minute = LargestBucket

\* C22 amended: when the play-by-play carries an action list (empty or not)
\* the last minute is periodCount * 12 for a final game and otherwise the
\* largest bucket an action wrote (0 when none did); with no play-by-play
\* at all the series ends at minute 0 whatever the status.
C22_LastMinuteOfActionList ==
    ReconDone =>
        LastSample.minute =
            IF ~HasActions THEN 0
            ELSE IF gameStatus = 3 THEN PeriodCount * 12
            ELSE IF DOMAIN rawMinuteData = {} THEN 0
            ELSE LargestBucket

\* a final game with an overtime period whose latest action is from the
\* start of period 2
C22_Witness ==
    /\ pc = "done"
    /\ gameStatus = 3
    /\ homePeriods = 5
    /\ DOMAIN rawMinuteData # {}
    /\ LargestBucket = 12
    /\ LastSample.minute = 60

(***************************************************************************)
(* Clock formats.                                                          *)
(***************************************************************************)
\* the same place in the game with the clock written as PT{MM}M{SS}S
IsoEquivalent(a) == [a EXCEPT !.clock = IsoClock(a.clock.min, a.clock.sec)]
JustScanned == Actions[actionIdx - 1]

\* C23: an action whose clock is an MM:SS token goes into the bucket that
\* the same action with the equivalent PT{MM}M{SS}S clock goes into.
C23_SameBucketForBothFormats ==
    (/\ pc = "scan"
     /\ actionIdx > 1
     /\ HasScores(JustScanned)
     /\ JustScanned.clock.fmt = "mmss") =>
        /\ MinuteKey(IsoEquivalent(JustScanned)) \in DOMAIN rawMinuteData
        /\ rawMinuteData[MinuteKey(IsoEquivalent(JustScanned))] =
              ActionDiff(JustScanned)

(***************************************************************************)
(* The bottom axis.                                                        *)
(***************************************************************************)
\* the labels on the axis, without their columns
LabelsShown == {AxisLabel(l.name, l.minute) : l \in content.labels}

\* C24: the axis carries Q1..Q4 at minutes 0, 12, 24, 36 and one label per
\* period beyond regulation: OT1..OTk at 48, 53, ..., 48 + 5(k-1) for a game
\* of 4 + k periods, and none for an overtime the game does not have.
C24_OneLabelPerPeriod ==
    (pc = "done" /\ chartWidth >= 1) =>
        LabelsShown =
            {AxisLabel(<<"Q", q>>, (q - 1) * 12) : q \in 1..4}
              \cup {AxisLabel(<<"OT", n>>, 48 + 5 * (n - 1)) :
                       n \in 1..(PeriodCount - 4)}

(***************************************************************************)
(* The plotting loop, step by step.                                        *)
(***************************************************************************)
\* positions of the samples plotted so far that map into column x
PlottedInColumn(x) == {i \in SamplesInColumn(x) : i < plotIdx}

\* C25: at every step of the plotting loop and at its end no column holds
\* more than one glyph; a column into which a sample plotted so far maps
\* holds its glyph at the row of the last such sample, and any other column
\* is empty.
C25_LastSampleWins ==
    pc \in {"plot", "done"} =>
        \A x \in 0..(chartWidth - 1) :
            /\ Cardinality(chart[x]) <= 1
            /\ chart[x] =
                  IF PlottedInColumn(x) = {} THEN {}
                  ELSE {RowOf(diffData[SetMax(PlottedInColumn(x))].diff,
                              yMax, interval)}

\* in the middle of the loop: column 0 has taken the baseline and then the
\* sample of minute 0 on another row, and a later column is still empty
\* although a sample maps to it
C25_Witness ==
    /\ pc = "plot"
    /\ plotIdx = 3
    /\ plotIdx <= Len(diffData)
    /\ chartWidth >= 3
    /\ Cardinality(PlottedInColumn(0)) = 2
    /\ chart[0] # {RowOf(0, yMax, interval)}
    /\ \E x \in 1..(chartWidth - 1) : SamplesInColumn(x) # {} /\ chart[x] = {}

(***************************************************************************)
(* The whole of renderGameFlow on a live game whose period count says      *)
(* regulation while the play-by-play already holds overtime events.        *)
(***************************************************************************)
MaxLateActions == 2      \* longest play-by-play list of the overtime runs
LateTimes == {<<1, IsoClock(10, 0)>>, <<5, IsoClock(10, 0)>>}
LateScores == {<<1, 0>>, <<0, 3>>, <<25, 0>>}
LateActions ==
    {ScoredAction(t[1], t[2], s[1], s[2]) : t \in LateTimes, s \in LateScores}

InitLate ==
    /\ gameStatus = 2
    /\ homePeriods = 4
    /\ playByPlay \in
         {[actions |-> l] : l \in ActionLists(LateActions, MaxLateActions)}
    /\ LocalsInit
    /\ UiIdle
    /\ MvpIdle
    /\ NewsIdle
    /\ StandingsIdle

SpecLate == InitLate /\ [][Next]_vars

\* the samples whose minute is at most periodCount * 12
InTime == {i \in 1..Len(diffData) : diffData[i].time <= totalGameMinutes}
SampleColumn(i) == ColumnOf(diffData[i].time, totalGameMinutes, chartWidth)
SampleRow(i) == RowOf(diffData[i].diff, yMax, interval)

\* C26: with at least one chart column, every sample whose minute is at most
\* periodCount * 12 has a row in [0, rows) that is a whole number
\* (yMax - normalizedDiff is a multiple of the interval) and a column in
\* [0, cols), so the plotting loop puts it into the grid: once it has been
\* plotted its column holds a glyph.  A sample that the bounds guard discards
\* therefore lies beyond periodCount * 12, or there is no column.
C26_InTimeSamplesPlotted ==
    (pc \in {"plot", "done"} /\ chartWidth >= 1) =>
        \A i \in InTime :
            /\ (yMax - RoundToInterval(diffData[i].diff, interval)) % interval = 0
            /\ InGrid(SampleColumn(i), SampleRow(i), chartWidth, chartHeight)
            /\ i < plotIdx => chart[SampleColumn(i)] # {}

\* a live game with an event in minute 50 of 48: the sample of minute 48 is
\* in the last column, the samples after it are discarded
C26_Witness ==
    /\ pc = "done"
    /\ chartWidth >= 2
    /\ totalGameMinutes = 48
    /\ \E i \in InTime :
          /\ diffData[i].time = totalGameMinutes
          /\ SampleColumn(i) = chartWidth - 1
          /\ chart[chartWidth - 1] = {SampleRow(i)}
    /\ \E i \in 1..Len(diffData) :
          /\ i \notin InTime
          /\ ~InGrid(SampleColumn(i), SampleRow(i), chartWidth, chartHeight)
    /\ \E i \in InTime : diffData[i].diff = 25

(***************************************************************************)
(* Focus and the closed detail view.                                       *)
(***************************************************************************)
DetailPanes == {"gameFlowBox", "boxScoreBox"}

\* C27: whenever the detail view is closed (detailView = null) the keyboard
\* focus is on a main-view widget or a dialog, never on the hidden game-flow
\* or box-score pane, whatever the order of key presses and fetch
\* completions.
C27_FocusOffHiddenPanes ==
    (Running /\ ui.detailView = NoGame) => ui.focus \notin DetailPanes

(***************************************************************************)
(* Lead changes: counted and drawn.                                        *)
(***************************************************************************)
\* where an action sits in the game, in seconds, its clock read in either
\* format (as parseGameClock reads it)
GameSeconds(a) ==
    ((IF a.period = 0 THEN 1 ELSE a.period) - 1) * 720 + 720
        - 60 * a.clock.min - a.clock.sec
EventsInTimeOrder(l) ==
    \A i, j \in 1..Len(l) : i <= j => GameSeconds(l[i]) <= GameSeconds(l[j])
\* the same by the minute the scan loop computes
EventsInBucketOrder(l) ==
    \A i, j \in 1..Len(l) : i <= j => BucketOf(l[i]) <= BucketOf(l[j])

HasLead(s) == s.diff # 0
\* sign reversals between consecutive nonzero diffs of the series
SignReversals(series) ==
    LET leads == SelectSeq(series, HasLead)
    IN  Cardinality({i \in 1..(Len(leads) - 1) :
                        leads[i].diff * leads[i + 1].diff < 0})

\* C28: when the events come in non-decreasing game-time order, the series
\* shows at most as many sign reversals between consecutive nonzero diffs as
\* the reported leadChanges.
C28_NoMoreReversalsThanLeadChanges ==
    (pc = "scale" /\ HasActions /\ EventsInTimeOrder(Actions)) =>
        SignReversals(diffData) <= leadChanges

\* C28 for events in the order of the minutes the scan loop gives them:
\* the bound holds
C28_ByBucketOrder ==
    (pc = "scale" /\ HasActions /\ EventsInBucketOrder(Actions)) =>
        SignReversals(diffData) <= leadChanges

\* two flips inside minute 0 and none drawn
C28_Witness ==
    /\ pc = "scale"
    /\ EventsInBucketOrder(Actions)
    /\ leadChanges = 2
    /\ SignReversals(diffData) = 0

(***************************************************************************)
(* Transaction alerts: subscribedPlayers, notifiedTransactions and the     *)
(* calls of notifier.notify made by checkSubscribedPlayerTransactions      *)
(* (src/index.js, lines 54-71, 89-114, 199-200, 1730-1742).  A description *)
(* stands for the set of names that occur in it: desc.includes(name) is    *)
(* name \in description.                                                   *)
(***************************************************************************)
MaxTransactions == 2     \* longest transaction list of one fetch

LeBron == [id |-> 1, name |-> "LeBron James", shortName |-> "L. James"]
Luka == [id |-> 2, name |-> "Luka Doncic"]
Players == {LeBron, Luka}

Transaction(date, abbr, desc) ==
    [date |-> date, team |-> abbr, description |-> desc]
Transactions ==
    {Transaction(1, "LAL", {"LeBron James", "L. James"}),
     Transaction(1, "DAL", {"L. James", "Luka Doncic"}),
     Transaction(2, "BOS", {})}

\* what fetchTradeNews resolves to: null, or an object with transactions
FetchTradeNewsResults ==
    {Null} \cup {[transactions |-> l] :
                    l \in UNION {[1..n -> Transactions] : n \in 0..MaxTransactions}}

\* `${tx.date}-${tx.team?.abbreviation}-${desc}`
TxKey(tx) == <<tx.date, tx.team, tx.description>>

\* [player.name, player.shortName].filter(Boolean)
PlayerNames(p) ==
    {p.name} \cup (IF "shortName" \in DOMAIN p THEN {p.shortName} ELSE {})
Mentions(tx, p) == PlayerNames(p) \cap tx.description # {}

\* notifier.notify({title: 'NBA Transaction Alert',
\*                  message: `${player.name}: ${desc}`})
Alert(tx, p) == [key |-> TxKey(tx), player |-> p.id]

\* if (notifiedTransactions.has(txKey)) continue
\* variant: nothing counts as notified
AlreadyNotified_Never(notified, tx) == FALSE
AlreadyNotified(notified, tx) == TxKey(tx) \in notified

\* the loop over subscribedPlayers, lines 98-111, from player i on: one alert
\* for each player with a name in the description
RECURSIVE AlertPlayers(_, _, _, _)
AlertPlayers(players, tx, i, sent) ==
    IF i > Len(players) THEN sent
    ELSE AlertPlayers(players, tx, i + 1,
                      IF Mentions(tx, players[i])
                        THEN sent (+) SetToBag({Alert(tx, players[i])})
                        ELSE sent)

\* the loop over the transactions, lines 92-112, from transaction i on;
\* st = [notified, sent]
RECURSIVE CheckFrom(_, _, _, _)
CheckFrom(txs, players, i, st) ==
    IF i > Len(txs) THEN st
    ELSE LET tx == txs[i]
             hit == \E j \in 1..Len(players) : Mentions(tx, players[j])
         IN  IF AlreadyNotified(st.notified, tx)
               THEN CheckFrom(txs, players, i + 1, st)
               ELSE CheckFrom(txs, players, i + 1,
                        [notified |-> IF hit THEN st.notified \cup {TxKey(tx)}
                                             ELSE st.notified,
                         sent |-> AlertPlayers(players, tx, 1, st.sent)])

checkSubscribedPlayerTransactions(txs, players, st) ==
    IF Len(players) = 0 THEN st ELSE CheckFrom(txs, players, 1, st)

\* main() has loaded the watch list; nothing has been fetched or notified
InitNotify ==
    /\ tradeNewsData = Null
    /\ subscribedPlayers \in {<<>>, <<LeBron>>}
    /\ notifiedTransactions = {}
    /\ notifications = EmptyBag
    /\ FlowIdle
    /\ UiIdle
    /\ MvpIdle
    /\ StandingsIdle

\* refreshTradeNews once its fetch has resolved, lines 1731-1736; the
\* rendering that follows writes the transactions panes only
RefreshTradeNewsFetched ==
    \E result \in FetchTradeNewsResults :
        /\ tradeNewsData' = result
        /\ LET st == IF result # Null
                       THEN checkSubscribedPlayerTransactions(
                                result.transactions, subscribedPlayers,
                                [notified |-> notifiedTransactions,
                                 sent |-> notifications])
                       ELSE [notified |-> notifiedTransactions,
                             sent |-> notifications]
           IN  /\ notifiedTransactions' = st.notified
               /\ notifications' = st.sent
        /\ UNCHANGED subscribedPlayers
        /\ UNCHANGED <<flowVars, ui, mvpVars, standingsVars>>

\* addSubscription, lines 54-61, called with a search result (line 805)
AddSubscription ==
    \E player \in Players :
        /\ subscribedPlayers' =
              IF \E i \in 1..Len(subscribedPlayers) :
                     subscribedPlayers[i].id = player.id
                THEN subscribedPlayers
                ELSE Append(subscribedPlayers, player)
        /\ UNCHANGED <<tradeNewsData, notifiedTransactions, notifications>>
        /\ UNCHANGED <<flowVars, ui, mvpVars, standingsVars>>

\* removeSubscription, lines 63-71, called with the id of the selected row
\* of the subscribed list (lines 823-824 and 831-832)
RemoveSubscription ==
    \E index \in 1..Len(subscribedPlayers) :
        /\ subscribedPlayers' =
              SubSeq(subscribedPlayers, 1, index - 1)
                  \o SubSeq(subscribedPlayers, index + 1,
                            Len(subscribedPlayers))
        /\ UNCHANGED <<tradeNewsData, notifiedTransactions, notifications>>
        /\ UNCHANGED <<flowVars, ui, mvpVars, standingsVars>>

NextNotify ==
    \/ RefreshTradeNewsFetched
    \/ AddSubscription
    \/ RemoveSubscription

SpecNotify == InitNotify /\ [][NextNotify]_vars

\* how many alerts the transaction with this key has produced for a player
AlertsSent(sent, key, id) ==
    CopiesIn([key |-> key, player |-> id], sent)
TxKeys == {TxKey(tx) : tx \in Transactions}
PlayerIds == {p.id : p \in Players}

\* C29: across refreshes, subscriptions and unsubscriptions a transaction
\* (date, team abbreviation, description) produces at most one alert per
\* subscribed player, and a call that starts with the key of a transaction
\* in notifiedTransactions produces no alert for it.
C29_NotifiedOnce ==
    [][\A key \in TxKeys, id \in PlayerIds :
          /\ AlertsSent(notifications', key, id) <= 1
          /\ key \in notifiedTransactions =>
                AlertsSent(notifications', key, id) =
                    AlertsSent(notifications, key, id)]_vars

\* the trade has been announced to Luka's subscriber only, the signing to
\* LeBron's, and the last fetch held both with both players subscribed:
\* one of the two was already notified when a later fetch brought it again
C29_Witness ==
    /\ subscribedPlayers = <<Luka, LeBron>>
    /\ tradeNewsData # Null
    /\ tradeNewsData.transactions =
          <<Transaction(1, "DAL", {"L. James", "Luka Doncic"}),
            Transaction(1, "LAL", {"LeBron James", "L. James"})>>
    /\ notifications =
          SetToBag({[key |-> <<1, "DAL", {"L. James", "Luka Doncic"}>>,
                     player |-> 2],
                    [key |-> <<1, "LAL", {"LeBron James", "L. James"}>>,
                     player |-> 1]})
    /\ notifiedTransactions =
          {<<1, "DAL", {"L. James", "Luka Doncic"}>>,
           <<1, "LAL", {"LeBron James", "L. James"}>>}

(***************************************************************************)
(* renderStandingsView (src/index.js, lines 1081-1185): the two            *)
(* conference tables.  A row carries the rank, the team, its record and    *)
(* its games behind; the win percentage and the colours are left out.      *)
(* Wins and losses are the integers Math.floor(toNumber(...)) yields.      *)
(***************************************************************************)
MaxTeams == 2            \* most entries of one conference
StandingsRows == 15      \* for (let i = 0; i < Math.min(maxTeams, 15); i++)

Team(abbr, w, l) == [teamAbbr |-> abbr, wins |-> w, losses |-> l]
Teams ==
    {Team("BOS", 10, 8), Team("NYK", 9, 2), Team("MIA", 9, 9),
     Team("CHI", 10, 5)}
Entries == UNION {[1..n -> Teams] : n \in 0..MaxTeams}
Conference(name, entries) == [name |-> name, entries |-> entries]

\* what fetchStandings resolves to: null, no conferences, or both
StandingsResults ==
    {Null, [children |-> <<>>]}
        \cup {[children |-> <<Conference("East", e), Conference("West", w)>>] :
                 e \in Entries, w \in Entries}

\* lines 1100-1126: the entries of the conferences whose name includes side
TeamsOf(data, side) ==
    LET confs == SelectSeq(data.children, LAMBDA c : c.name = side)
    IN  IF Len(confs) = 0 THEN <<>> ELSE confs[1].entries

\* (a, b) => b.wins - a.wins || a.losses - b.losses is negative
SortsBefore(a, b) ==
    a.wins > b.wins \/ (a.wins = b.wins /\ a.losses < b.losses)

\* Array.prototype.sort with that comparator; the sort is stable
SortTeams(teams) ==
    LET n == Len(teams)
        order == CHOOSE p \in [1..n -> 1..n] :
                    /\ \A i, j \in 1..n : i # j => p[i] # p[j]
                    /\ \A i \in 1..(n - 1) :
                          \/ SortsBefore(teams[p[i]], teams[p[i + 1]])
                          \/ /\ ~SortsBefore(teams[p[i + 1]], teams[p[i]])
                             /\ p[i] < p[i + 1]
    IN  [i \in 1..n |-> teams[order[i]]]

\* (x / 2).toFixed(1) for an integer x: sign, whole part, first decimal
ToFixed1OfHalf(x) ==
    [negative |-> x < 0, whole |-> Abs(x) \div 2,
     tenth |-> IF Abs(x) % 2 = 1 THEN 5 ELSE 0]
Dash == [dash |-> TRUE]

\* lines 1163 and 1170: the GB cell of row i (from 0) of a conference
GamesBehind(i, team, leader) ==
    IF i = 0 THEN Dash
    ELSE ToFixed1OfHalf(leader.wins - team.wins + team.losses - leader.losses)

StandingsRow(i, team, leader) ==
    [rank |-> i + 1, teamAbbr |-> team.teamAbbr, wins |-> team.wins,
     losses |-> team.losses, gb |-> GamesBehind(i, team, leader)]

\* lines 1148-1177: the rows of one conference
ConferenceRows(sorted, maxTeams) ==
    LET shown == Min(Len(sorted), Min(maxTeams, StandingsRows))
    IN  [k \in 1..shown |-> StandingsRow(k - 1, sorted[k], sorted[1])]

renderStandingsView(data) ==
    IF data = Null THEN [message |-> "Loading standings..."]
    ELSE IF Len(data.children) = 0
      THEN [message |-> "No standings data available"]
    ELSE LET eastTeams == SortTeams(TeamsOf(data, "East"))
             westTeams == SortTeams(TeamsOf(data, "West"))
             maxTeams == Max(Len(eastTeams), Len(westTeams))
         IN  [east |-> ConferenceRows(eastTeams, maxTeams),
              west |-> ConferenceRows(westTeams, maxTeams)]

\* the standings have been fetched and the box is still empty
NoStandingsShown == [message |-> ""]
InitStandings ==
    /\ standingsData \in StandingsResults
    /\ standingsContent = NoStandingsShown
    /\ FlowIdle
    /\ UiIdle
    /\ MvpIdle
    /\ NewsIdle

RenderStandingsView ==
    /\ standingsContent' = renderStandingsView(standingsData)
    /\ UNCHANGED standingsData
    /\ UNCHANGED <<flowVars, ui, mvpVars, newsVars>>

NextStandings == RenderStandingsView

SpecStandings == InitStandings /\ [][NextStandings]_vars

TablesShown == "east" \in DOMAIN standingsContent
Tables == {standingsContent.east, standingsContent.west}

\* C30: in each conference table the first listed team shows '-' as games
\* behind and every other listed team shows a value greater than or equal
\* to 0.
C30_GamesBehindNotNegative ==
    TablesShown =>
        \A rows \in Tables :
            \A k \in 1..Len(rows) :
                IF k = 1 THEN rows[k].gb = Dash
                ELSE /\ rows[k].gb # Dash
                     /\ ~rows[k].gb.negative

\* C30, the value alone: the first listed team shows '-' and every other
\* listed team shows ((leaderWins - wins) + (losses - leaderLosses)) / 2 to
\* one decimal, the teams listed by wins descending, then losses ascending.
C30_GamesBehindValue ==
    TablesShown =>
        \A rows \in Tables :
            \A k \in 1..Len(rows) :
                /\ k > 1 => ~SortsBefore(rows[k], rows[k - 1])
                /\ rows[k].gb =
                      IF k = 1 THEN Dash
                      ELSE ToFixed1OfHalf((rows[1].wins - rows[k].wins)
                               + (rows[k].losses - rows[1].losses))

====
